---- MODULE Spec2Model ----
(***************************************************************************)
(* A model of DashboardExperience                                          *)
(* (src/experiences/dashboard-experience/dashboard-experience.ts): the     *)
(* constructor with its URL grammar, the assignment of discriminators, the *)
(* interception of inbound messages, the facade operations built on send,  *)
(* and the transformation of the content options.                          *)
(*                                                                         *)
(* BaseExperience, DashboardExperienceFrame and the event manager are not  *)
(* among the sources; what the constructor needs of them is modelled from  *)
(* the specification and from the way the unit test uses them.             *)
(***************************************************************************)
EXTENDS Integers, Sequences, FiniteSets, TLC

VARIABLES
    experienceIdentifiers,  \* the Set<string> shared by the constructions
    experiences,            \* the constructed experiences, in construction order
    lastNew,                \* the latest constructor call and what it did
    lastInbound,            \* the latest inbound message and the handlers it invoked
    lastCall,               \* the latest facade operation call and the envelopes it sent
    pending,                \* facade calls whose send has not resolved yet
    lastResult,             \* the latest resolved facade call
    tInput,                 \* content options handed to the transformation
    tOutput                 \* what the transformation returned for tInput

vars == <<experienceIdentifiers, experiences, lastNew, lastInbound,
          lastCall, pending, lastResult, tInput, tOutput>>

constructionVars == <<experienceIdentifiers, experiences, lastNew, lastInbound>>
facadeVars == <<lastCall, pending, lastResult>>
transformVars == <<tInput, tOutput>>

-----------------------------------------------------------------------------
(* Bounds of the model.                                                    *)

MaxConstructions == 2
MaxPending == 1
MaxParameters == 2

-----------------------------------------------------------------------------
(* JavaScript values.  A value carries its type, so that ===, ?? and       *)
(* truthiness can be computed the way the language computes them.          *)

Undefined == [type |-> "undefined"]
Null == [type |-> "null"]
Bool(b) == [type |-> "boolean", val |-> b]
Str(s) == [type |-> "string", val |-> s]
Num(n) == [type |-> "number", val |-> n]
Arr(s) == [type |-> "array", val |-> s]
Obj(f) == [type |-> "object", val |-> f]
Fn(name) == [type |-> "function", val |-> name]

EmptyObject == Obj(<<>>)

\* o?.k : undefined when o is undefined or null or has no own property k
Get(o, k) ==
    IF o.type = "object" /\ k \in DOMAIN o.val THEN o.val[k] ELSE Undefined

\* ToBoolean
Truthy(v) ==
    CASE v.type = "undefined" -> FALSE
      [] v.type = "null" -> FALSE
      [] v.type = "boolean" -> v.val
      [] v.type = "string" -> v.val # ""
      [] v.type = "number" -> v.val # 0
      [] OTHER -> TRUE

\* v === true
IsTrue(v) == v.type = "boolean" /\ v.val

\* a ?? b
Coalesce(a, b) == IF a.type \in {"undefined", "null"} THEN b ELSE a

\* the own keys of o with k set to v ({...o, [k]: v})
Put(o, k, v) == [x \in DOMAIN o \cup {k} |-> IF x = k THEN v ELSE o[x]]

-----------------------------------------------------------------------------
(* URLs.  A URL string is kept split at its '/' characters up to the first *)
(* '?', followed by the names of its query parameters:                     *)
(*   https://test.amazon.com/embed/guid/dashboards/testDashboardId?test=t  *)
(* is segs = <<"https:", "", "test.amazon.com", "embed", "guid",           *)
(* "dashboards", "testDashboardId">>, hasQuery = TRUE, query = <<"test">>. *)

\* the segments made of [A-Za-z0-9_-] only
WordSegments ==
    {"embed", "Embed", "guid", "dashboards", "Dashboards", "testDashboardId",
     "testdashboardid", "dash-2", "sheets", "testSheetId", "visuals",
     "testVisualId", "embedded"}

\* the longest prefix of a segment that [\w-]+ can consume
WordPrefix(seg) ==
    CASE seg \in WordSegments -> seg
      [] seg = "dash.2" -> "dash"
      [] seg = "https:" -> "https"
      [] seg = "HTTPS:" -> "HTTPS"
      [] seg = "http:" -> "http"
      [] seg = "test.amazon.com" -> "test"
      [] OTHER -> ""

\* String.prototype.toLowerCase on the segments the i flag matters for
ToLowerCase(seg) ==
    CASE seg = "HTTPS:" -> "https:"
      [] seg = "Embed" -> "embed"
      [] seg = "Dashboards" -> "dashboards"
      [] seg = "testDashboardId" -> "testdashboardid"
      [] seg = "testSheetId" -> "testsheetid"
      [] seg = "testVisualId" -> "testvisualid"
      [] OTHER -> seg

Url(segs, hasQuery, query) == [segs |-> segs, hasQuery |-> hasQuery, query |-> query]

TEST_OTHER_URL ==
    Url(<<"https:", "", "test.amazon.com", "embed", "guid", "dashboards",
          "testDashboardId">>, FALSE, <<>>)

TEST_VISUAL_URL ==
    Url(TEST_OTHER_URL.segs \o <<"sheets", "testSheetId", "visuals", "testVisualId">>,
        FALSE, <<>>)

\* the same grammar without its final (\?|$)
DashboardUrlRegexExecNoEnd(url) ==
    LET s == url.segs
        id == IF Len(s) >= 7 THEN WordPrefix(s[7]) ELSE ""
        matched ==
            /\ Len(s) >= 7
            /\ ToLowerCase(s[1]) = "https:"
            /\ s[2] = ""
            /\ s[3] # ""
            /\ ToLowerCase(s[4]) = "embed"
            /\ s[5] # ""
            /\ ToLowerCase(s[6]) = "dashboards"
            /\ id # ""
    IN  IF matched THEN <<SubSeq(s, 1, 7), id, "">> ELSE <<>>

\* /^https:\/\/[^/]+\/embed\/[^/]+\/dashboards\/([\w-]+)(\?|$)/i.exec(url) || []
\* The result is the array of the match and its two groups, or [].
DashboardUrlRegexExec(url) ==
    LET s == url.segs
        id == IF Len(s) >= 7 THEN WordPrefix(s[7]) ELSE ""
        \* what follows the dashboard id is the end of the string or a '?'
        atEndOrQuery == Len(s) = 7 /\ id = s[7]
        matched ==
            /\ Len(s) >= 7
            /\ ToLowerCase(s[1]) = "https:"
            /\ s[2] = ""
            /\ s[3] # ""
            /\ ToLowerCase(s[4]) = "embed"
            /\ s[5] # ""
            /\ ToLowerCase(s[6]) = "dashboards"
            /\ id # ""
            /\ atEndOrQuery
    IN  IF matched
        THEN <<SubSeq(s, 1, 7), id, IF url.hasQuery THEN "?" ELSE "">>
        ELSE <<>>

-----------------------------------------------------------------------------
(* Change events, as onChange receives them: the ChangeEvent and the       *)
(* {frame: null} metadata of the calls made during construction.           *)

ChangeEvent(eventName, eventLevel, message, data) ==
    [eventName |-> eventName, eventLevel |-> eventLevel, message |-> message,
     data |-> data, frame |-> "null"]

\* this.frameOptions.onChange?.(event, {frame: null})
OnChangeCall(hasOnChange, event) == IF hasOnChange THEN <<event>> ELSE <<>>

-----------------------------------------------------------------------------
(* extractExperienceFromUrl                                                *)

NoError == "none"
TEST_CONTEXT_ID == "testContextId"

extractExperienceFromUrlLowerCased(url, hasOnChange) ==
    LET matches == DashboardUrlRegexExec(url)
    IN  IF Len(matches) < 3
        THEN [thrown |-> "Invalid dashboard experience URL",
              onChange |-> OnChangeCall(hasOnChange,
                  ChangeEvent("INVALID_URL", "ERROR",
                              "Invalid dashboard experience url", [url |-> url])),
              value |-> Undefined]
        ELSE [thrown |-> NoError,
              onChange |-> <<>>,
              value |-> [experienceType |-> "DASHBOARD",
                         dashboardId |-> ToLowerCase(matches[2])]]

extractExperienceFromUrlNoThrow(url, hasOnChange) ==
    LET matches == DashboardUrlRegexExec(url)
    IN  [thrown |-> NoError,
         onChange |-> IF Len(matches) < 3
                      THEN OnChangeCall(hasOnChange,
                               ChangeEvent("INVALID_URL", "ERROR",
                                   "Invalid dashboard experience url", [url |-> url]))
                      ELSE <<>>,
         value |-> [experienceType |-> "DASHBOARD",
                    dashboardId |-> IF Len(matches) < 3 THEN "undefined" ELSE matches[2]]]

\* throwing without telling onChange
extractExperienceFromUrlSilent(url, hasOnChange) ==
    LET matches == DashboardUrlRegexExec(url)
    IN  IF Len(matches) < 3
        THEN [thrown |-> "Invalid dashboard experience URL",
              onChange |-> <<>>,
              value |-> Undefined]
        ELSE [thrown |-> NoError,
              onChange |-> <<>>,
              value |-> [experienceType |-> "DASHBOARD", dashboardId |-> matches[2]]]

extractExperienceFromUrl(url, hasOnChange) ==
    LET matches == DashboardUrlRegexExec(url)
    IN  IF Len(matches) < 3
        THEN [thrown |-> "Invalid dashboard experience URL",
              onChange |-> OnChangeCall(hasOnChange,
                  ChangeEvent("INVALID_URL", "ERROR",
                              "Invalid dashboard experience url", [url |-> url])),
              value |-> Undefined]
        ELSE [thrown |-> NoError,
              onChange |-> <<>>,
              value |-> [experienceType |-> "DASHBOARD", dashboardId |-> matches[2]]]

-----------------------------------------------------------------------------
(* The experience registry (BaseExperience.getInternalExperienceInfo).     *)

\* the identifier string derived from an experience key and a discriminator
ExperienceIdentifier(experience, contextId, discriminator) ==
    <<contextId, experience.experienceType, experience.dashboardId, discriminator>>

\* the first discriminator, counting from 0, whose identifier is unused
RECURSIVE NextDiscriminator(_, _, _, _)
NextDiscriminator(experience, contextId, identifiers, d) ==
    IF ExperienceIdentifier(experience, contextId, d) \in identifiers
    THEN NextDiscriminator(experience, contextId, identifiers, d + 1)
    ELSE d

getInternalExperienceInfo(experience, contextId, identifiers) ==
    LET d == NextDiscriminator(experience, contextId, identifiers, 0)
        id == ExperienceIdentifier(experience, contextId, d)
    IN  [experienceIdentifier |-> id,
         internalExperience |->
             [experienceType |-> experience.experienceType,
              dashboardId |-> experience.dashboardId,
              contextId |-> contextId,
              discriminator |-> d],
         identifiers |-> identifiers \cup {id}]

-----------------------------------------------------------------------------
(* transformDashboardContentOptions                                        *)

\* the properties the destructuring names; the rest is unrecognized
RecognizedContentOptionsNoOnMessage ==
    {"parameters", "locale", "attributionOptions", "sheetOptions", "toolbarOptions"}

RecognizedContentOptions ==
    {"parameters", "locale", "attributionOptions", "sheetOptions", "toolbarOptions",
     "onMessage"}

\* BaseExperience.transformContentOptions: reports the unrecognized options
\* and forwards them with the filtered ones
transformContentOptions(filteredOptions, unrecognizedContentOptions, hasOnChange) ==
    [value |-> [k \in DOMAIN filteredOptions \cup DOMAIN unrecognizedContentOptions |->
                   IF k \in DOMAIN unrecognizedContentOptions
                   THEN unrecognizedContentOptions[k]
                   ELSE filteredOptions[k]],
     onChange |->
         IF DOMAIN unrecognizedContentOptions # {}
         THEN OnChangeCall(hasOnChange,
                  ChangeEvent("UNRECOGNIZED_CONTENT_OPTIONS", "WARN",
                      "Experience content options contain unrecognized properties",
                      [unrecognizedContentOptions |-> DOMAIN unrecognizedContentOptions]))
         ELSE <<>>]

\* parameters.reduce((acc, parameter) => ({[parameter.Name]: parameter.Values}), {})
RECURSIVE ParametersReduceNoSpread(_, _)
ParametersReduceNoSpread(parameters, parametersAsObject) ==
    IF parameters = <<>>
    THEN parametersAsObject
    ELSE ParametersReduceNoSpread(Tail(parameters),
             [n \in {Head(parameters).Name} |-> Head(parameters).Values])

\* parameters.reduce((acc, parameter) =>
\*     ({...acc, [parameter.Name]: parameter.Values}), {})
RECURSIVE ParametersReduce(_, _)
ParametersReduce(parameters, parametersAsObject) ==
    IF parameters = <<>>
    THEN parametersAsObject
    ELSE ParametersReduce(Tail(parameters),
             Put(parametersAsObject, Head(parameters).Name, Head(parameters).Values))

\* an assignment of true, whatever the value
SetIfTrue(cond, o, k, v) == IF cond THEN Put(o, k, Bool(TRUE)) ELSE o

\* if (cond) transformedContentOptions[k] = v
SetIf(cond, o, k, v) == IF cond THEN Put(o, k, v) ELSE o

transformDashboardContentOptions(contentOptions, hasOnChange) ==
    LET parameters == Get(contentOptions, "parameters")
        locale == Get(contentOptions, "locale")
        attributionOptions == Get(contentOptions, "attributionOptions")
        sheetOptions == Get(contentOptions, "sheetOptions")
        toolbarOptions == Get(contentOptions, "toolbarOptions")
        unrecognizedContentOptions ==
            [k \in DOMAIN contentOptions.val \ RecognizedContentOptions |->
                contentOptions.val[k]]
        base == transformContentOptions([locale |-> locale],
                                        unrecognizedContentOptions, hasOnChange)
        t1 == SetIf(parameters.type = "array", base.value, "parameters",
                    Obj(ParametersReduce(parameters.val, <<>>)))
        t2 == SetIf(~IsTrue(Get(attributionOptions, "overlayContent")),
                    t1, "footerPaddingEnabled", Bool(TRUE))
        t3 == SetIf(\/ Truthy(Get(toolbarOptions, "export"))
                    \/ Truthy(Get(Get(toolbarOptions, "export"), "print")),
                    t2, "printEnabled", Bool(TRUE))
        t4 == SetIf(~IsTrue(Get(toolbarOptions, "undoRedo")),
                    t3, "undoRedoDisabled", Bool(TRUE))
        t5 == SetIf(~IsTrue(Get(toolbarOptions, "reset")),
                    t4, "resetDisabled", Bool(TRUE))
        t6 == SetIf(IsTrue(Get(toolbarOptions, "bookmarks")),
                    t5, "showBookmarksIcon", Bool(TRUE))
        t7 == SetIf(Truthy(Get(sheetOptions, "initialSheetId")),
                    t6, "sheetId", Get(sheetOptions, "initialSheetId"))
        t8 == SetIf(Get(sheetOptions, "singleSheet").type = "boolean",
                    t7, "sheetTabsDisabled", Get(sheetOptions, "singleSheet"))
        t9 == SetIf(Truthy(Get(sheetOptions, "emitSizeChangedEventOnSheetChange")),
                    t8, "resizeOnSheetChange", Bool(TRUE))
    IN  [value |-> Obj(t9), onChange |-> base.onChange]

-----------------------------------------------------------------------------
(* The frame (DashboardExperienceFrame) and the source URL it is given.    *)

\* the order in which the transformed content options are serialized
QueryParameterOrder ==
    <<"locale", "testUnrecognizedContentOption", "fitToIframeWidth",
      "footerPaddingEnabled", "printEnabled", "undoRedoDisabled", "resetDisabled",
      "showBookmarksIcon", "sheetId", "sheetTabsDisabled", "resizeOnSheetChange">>

QueryParameter(name, value) == [name |-> name, value |-> value]

\* {url}?{original query}&punyCodeEmbedOrigin=..&{options}&contextId=..&discriminator=..#{p.Name=..}
buildExperienceUrlNoIdentity(url, transformedContentOptions, internalExperience) ==
    [segs |-> url.segs,
     query |-> [i \in 1..Len(url.query) |-> QueryParameter(url.query[i], Str("test"))]
               \o <<QueryParameter("punyCodeEmbedOrigin", Str("http://localhost/-"))>>,
     fragment |-> Get(transformedContentOptions, "parameters")]

buildExperienceUrl(url, transformedContentOptions, internalExperience) ==
    LET t == transformedContentOptions.val
        present == SelectSeq(QueryParameterOrder,
                             LAMBDA k : k \in DOMAIN t /\ t[k].type # "undefined")
    IN  [segs |-> url.segs,
         query |->
             [i \in 1..Len(url.query) |-> QueryParameter(url.query[i], Str("test"))]
             \o <<QueryParameter("punyCodeEmbedOrigin", Str("http://localhost/-"))>>
             \o [i \in 1..Len(present) |-> QueryParameter(present[i], t[present[i]])]
             \o <<QueryParameter("contextId", Str(internalExperience.contextId)),
                  QueryParameter("discriminator", Num(internalExperience.discriminator))>>,
         fragment |-> Get(transformedContentOptions, "parameters")]

\* a frame that announces itself with the identity of the first experience
\* of its key
DashboardExperienceFrameAnnouncesKey(args) ==
    [onChange |-> OnChangeCall(args.frameOptions.onChange,
                      ChangeEvent("FRAME_STARTED", "INFO", "Creating the frame",
                          [experience |->
                              [args.internalExperience EXCEPT !.discriminator = 0]])),
     eventTarget |-> args.internalExperience,
     src |-> buildExperienceUrl(args.frameOptions.url.val, args.transformedContentOptions,
                                args.internalExperience),
     height |-> "0px"]

\* new DashboardExperienceFrame(...): announces the frame, creates it with
\* the built URL and registers it for the messages addressed to its experience
DashboardExperienceFrame(args) ==
    [onChange |-> OnChangeCall(args.frameOptions.onChange,
                      ChangeEvent("FRAME_STARTED", "INFO", "Creating the frame",
                                  [experience |-> args.internalExperience])),
     eventTarget |-> args.internalExperience,
     src |-> buildExperienceUrl(args.frameOptions.url.val, args.transformedContentOptions,
                                args.internalExperience),
     height |-> "0px"]

-----------------------------------------------------------------------------
(* The constructor.                                                        *)

\* BaseExperience's constructor: the URL is required
BaseExperience(frameOptions) ==
    [thrown |-> IF frameOptions.url.type = "undefined"
                THEN "Url is required for the experience"
                ELSE NoError]

\* the arguments of new DashboardExperienceFrame(...)
DashboardExperienceFrameArgumentsFirstTarget(frameOptions, contentOptions, transformedContentOptions, internalExperience, experienceIdentifier) ==
    [frameOptions |-> frameOptions,
     contentOptions |-> contentOptions,
     transformedContentOptions |-> transformedContentOptions,
     internalExperience |-> [internalExperience EXCEPT !.discriminator = 0],
     experienceIdentifier |-> experienceIdentifier]

DashboardExperienceFrameArguments(frameOptions, contentOptions, transformedContentOptions, internalExperience, experienceIdentifier) ==
    [frameOptions |-> frameOptions,
     contentOptions |-> contentOptions,
     transformedContentOptions |-> transformedContentOptions,
     internalExperience |-> internalExperience,
     experienceIdentifier |-> experienceIdentifier]

\* what a construction that threw leaves behind
Thrown(error, onChange, identifiers) ==
    [thrown |-> error, onChange |-> onChange, identifiers |-> identifiers,
     created |-> FALSE, experience |-> Undefined,
     transformedContentOptions |-> Undefined, src |-> Undefined]

\* new DashboardExperience(frameOptions, contentOptions, controlOptions, experienceIdentifiers)
DashboardExperience(frameOptions, contentOptions, controlOptions, identifiers) ==
    LET super == BaseExperience(frameOptions)
        extracted == extractExperienceFromUrl(frameOptions.url.val, frameOptions.onChange)
        info == getInternalExperienceInfo(extracted.value, controlOptions.contextId,
                                          identifiers)
        transformed == transformDashboardContentOptions(contentOptions,
                                                        frameOptions.onChange)
        frame == DashboardExperienceFrame(
                     DashboardExperienceFrameArguments(frameOptions, contentOptions,
                         transformed.value, info.internalExperience,
                         info.experienceIdentifier))
    IN  IF super.thrown # NoError
        THEN Thrown(super.thrown, <<>>, identifiers)
        ELSE IF extracted.thrown # NoError
        THEN Thrown(extracted.thrown, extracted.onChange, identifiers)
        ELSE [thrown |-> NoError,
              onChange |-> extracted.onChange \o transformed.onChange \o frame.onChange,
              identifiers |-> info.identifiers,
              created |-> TRUE,
              experience |->
                  [internalExperience |-> info.internalExperience,
                   experienceId |-> info.experienceIdentifier,
                   resizeHeightOnSizeChangedEvent |->
                       frameOptions.resizeHeightOnSizeChangedEvent,
                   onMessage |-> Get(contentOptions, "onMessage"),
                   eventTarget |-> frame.eventTarget,
                   height |-> frame.height],
              transformedContentOptions |-> transformed.value,
              src |-> frame.src]

-----------------------------------------------------------------------------
(* interceptMessage and the routing of inbound messages.                   *)

\* `${value}`
TemplateString(v) ==
    CASE v.type = "string" -> v.val
      [] v.type = "undefined" -> "undefined"
      [] v.type = "null" -> "null"
      [] OTHER -> "[object Object]"

\* the height the frame has after interceptMessage(messageEvent, {frame})
interceptMessageAnyEvent(messageEvent, resizeHeightOnSizeChangedEvent, height) ==
    IF Truthy(resizeHeightOnSizeChangedEvent)
    THEN TemplateString(Get(messageEvent.message, "height")) \o "px"
    ELSE height

interceptMessage(messageEvent, resizeHeightOnSizeChangedEvent, height) ==
    IF messageEvent.eventName = "SIZE_CHANGED" /\ Truthy(resizeHeightOnSizeChangedEvent)
    THEN TemplateString(Get(messageEvent.message, "height")) \o "px"
    ELSE height

\* the experiences an inbound message is routed to: those registered under
\* its eventTarget
RoutedTo(message) ==
    {i \in 1..Len(experiences) : experiences[i].eventTarget = message.eventTarget}

-----------------------------------------------------------------------------
(* The inputs the model draws from.                                        *)

ValidSegs ==
    {TEST_OTHER_URL.segs,
     [TEST_OTHER_URL.segs EXCEPT ![1] = "HTTPS:", ![4] = "Embed", ![6] = "Dashboards"],
     [TEST_OTHER_URL.segs EXCEPT ![7] = "testdashboardid"],
     [TEST_OTHER_URL.segs EXCEPT ![7] = "dash-2"]}

InvalidSegs ==
    {[TEST_OTHER_URL.segs EXCEPT ![1] = "http:"],
     [TEST_OTHER_URL.segs EXCEPT ![3] = ""],
     [TEST_OTHER_URL.segs EXCEPT ![4] = "embedded"],
     [TEST_OTHER_URL.segs EXCEPT ![5] = ""],
     [TEST_OTHER_URL.segs EXCEPT ![6] = "sheets"],
     [TEST_OTHER_URL.segs EXCEPT ![7] = "dash.2"],
     [TEST_OTHER_URL.segs EXCEPT ![7] = ""],
     SubSeq(TEST_OTHER_URL.segs, 1, 6),
     SubSeq(TEST_OTHER_URL.segs, 3, 7),
     TEST_OTHER_URL.segs \o <<"">>,
     TEST_VISUAL_URL.segs}

Queries == {<<"test">>, <<"contextId">>, <<"test", "test">>, <<>>}

Urls ==
    {Url(segs, FALSE, <<>>) : segs \in ValidSegs \cup InvalidSegs}
    \cup {Url(TEST_OTHER_URL.segs, TRUE, q) : q \in Queries}
    \cup {Url(TEST_VISUAL_URL.segs, TRUE, <<"test">>)}

TEST_PARAMETERS == Arr(<<[Name |-> "State", Values |-> <<"CT">>]>>)

ContentOptions ==
    {EmptyObject,
     Obj([testUnrecognizedContentOption |-> Str("some value")]),
     Obj([fitToIframeWidth |-> Bool(TRUE), locale |-> Str("en-US"),
          parameters |-> TEST_PARAMETERS, onMessage |-> Fn("onMessage")]),
     Obj([undoRedoDisabled |-> Bool(FALSE)]),
     Obj([toolbarOptions |-> Obj([export |-> Bool(TRUE), undoRedo |-> Bool(TRUE)]),
          sheetOptions |-> Obj([singleSheet |-> Bool(TRUE), initialSheetId |-> Str("s1")]),
          testUnrecognizedContentOption |-> Str("some value"),
          fitToIframeWidth |-> Bool(TRUE)]),
     Obj([locale |-> Str("en-US"), onMessage |-> Fn("onMessage")])}

TEST_CONTROL_OPTIONS == [contextId |-> TEST_CONTEXT_ID]

\* the identities the constructions can assign, one of another dashboard and
\* one of another embedding context
EventTargets ==
    [experienceType : {"DASHBOARD"}, dashboardId : {"testDashboardId"},
     contextId : {TEST_CONTEXT_ID}, discriminator : 0..MaxConstructions]
    \cup {[experienceType |-> "DASHBOARD", dashboardId |-> "dash-2",
           contextId |-> TEST_CONTEXT_ID, discriminator |-> 0],
          [experienceType |-> "DASHBOARD", dashboardId |-> "testDashboardId",
           contextId |-> "otherContextId", discriminator |-> 0]}

InboundMessages ==
    [eventTarget : EventTargets,
     eventName : {"SIZE_CHANGED", "size_changed", "CONTENT_LOADED"},
     message : {Obj([height |-> Str("500")]), Undefined}]

-----------------------------------------------------------------------------
(* Construction and the delivery of inbound messages.                      *)

NoConstruction ==
    [n |-> 0, frameOptions |-> Undefined, contentOptions |-> Undefined,
     result |-> Undefined]

NoInbound == [seq |-> 0, message |-> Undefined, invoked |-> {}]

NotCalled == [op |-> "none", args |-> <<>>, sent |-> <<>>]
NotResolved == [op |-> "none", response |-> Undefined, value |-> Undefined]
NotComputed == [computed |-> FALSE, value |-> Undefined, onChange |-> <<>>]

ConstructionInit ==
    /\ experienceIdentifiers = {}
    /\ experiences = <<>>
    /\ lastNew = NoConstruction
    /\ lastInbound = NoInbound

FacadeInit ==
    /\ lastCall = NotCalled
    /\ pending = <<>>
    /\ lastResult = NotResolved

TransformIdle ==
    /\ tInput = [contentOptions |-> EmptyObject, onChange |-> FALSE]
    /\ tOutput = NotComputed

\* new DashboardExperience(...) with the inputs drawn from the given sets
Construct(urls, contents, onChanges, resizes) ==
    /\ lastNew.n < MaxConstructions
    /\ \E url \in urls, contentOptions \in contents, onChange \in onChanges,
          resize \in resizes :
          LET frameOptions == [url |-> url, onChange |-> onChange,
                               resizeHeightOnSizeChangedEvent |-> resize]
          IN  \E result \in {DashboardExperience(frameOptions, contentOptions,
                                  TEST_CONTROL_OPTIONS, experienceIdentifiers)} :
                  /\ experienceIdentifiers' = result.identifiers
                  /\ experiences' = IF result.created
                                    THEN Append(experiences, result.experience)
                                    ELSE experiences
                  /\ lastNew' = [n |-> lastNew.n + 1, frameOptions |-> frameOptions,
                                 contentOptions |-> contentOptions, result |-> result]
    /\ UNCHANGED <<lastInbound, facadeVars, transformVars>>

NewDashboardExperience ==
    Construct({Str(u) : u \in Urls} \cup {Undefined}, ContentOptions, BOOLEAN,
              {Undefined})

\* the constructions of the specification that delivers inbound messages
NewDashboardExperienceToAddress ==
    Construct({Str(TEST_OTHER_URL)},
              {EmptyObject, Obj([onMessage |-> Fn("onMessage")])}, {TRUE},
              {Bool(TRUE), Bool(FALSE), Undefined})

\* controlFrameMessageListener(new MessageEvent('message', {data: message})):
\* the message goes to the interception hook and to the onMessage listener
\* of the experiences registered under its eventTarget
ControlFrameMessageListener ==
    /\ \E message \in InboundMessages :
          \E routed \in {RoutedTo(message)} :
              /\ experiences' =
                     [i \in 1..Len(experiences) |->
                         IF i \in routed
                         THEN [experiences[i] EXCEPT !.height =
                                  interceptMessage(message,
                                      experiences[i].resizeHeightOnSizeChangedEvent,
                                      experiences[i].height)]
                         ELSE experiences[i]]
              /\ lastInbound' =
                     [seq |-> 1 - lastInbound.seq,
                      message |-> message,
                      invoked |->
                          {<<"interceptMessage", i>> : i \in routed}
                          \cup {<<"onMessage", i>> :
                                   i \in {j \in routed :
                                            experiences[j].onMessage.type = "function"}}]
    /\ UNCHANGED <<experienceIdentifiers, lastNew, facadeVars, transformVars>>

Init == ConstructionInit /\ FacadeInit /\ TransformIdle

Next == NewDashboardExperience

Spec == Init /\ [][Next]_vars

NextInbound == NewDashboardExperienceToAddress \/ ControlFrameMessageListener

SpecInbound == Init /\ [][NextInbound]_vars

-----------------------------------------------------------------------------
(* The dashboard path grammar of the embed URL:                             *)
(* https://<host>/embed/<guid>/dashboards/<dashboardId>, then '?' or the   *)
(* end of the string (letter case is not significant).                     *)

MatchesDashboardGrammar(url) ==
    /\ Len(url.segs) = 7
    /\ ToLowerCase(url.segs[1]) = "https:" /\ url.segs[2] = ""
    /\ url.segs[3] # ""
    /\ ToLowerCase(url.segs[4]) = "embed"
    /\ url.segs[5] # ""
    /\ ToLowerCase(url.segs[6]) = "dashboards"
    /\ url.segs[7] \in WordSegments

\* the latest constructor call was given a URL string
Constructed == lastNew.n > 0 /\ lastNew.frameOptions.url.type = "string"
ConstructedUrl == lastNew.frameOptions.url.val
ConstructedValid == Constructed /\ MatchesDashboardGrammar(ConstructedUrl)
ConstructedInvalid == Constructed /\ ~MatchesDashboardGrammar(ConstructedUrl)

\* C1: a construction whose URL does not match the dashboard path grammar
\* throws 'Invalid dashboard experience URL' and creates no frame.
C1_InvalidUrlThrows ==
    ConstructedInvalid =>
        /\ lastNew.result.thrown = "Invalid dashboard experience URL"
        /\ ~lastNew.result.created
        /\ lastNew.result.src = Undefined

C1_Witness ==
    /\ ConstructedInvalid
    /\ ConstructedUrl = TEST_VISUAL_URL
    /\ lastNew.result.thrown = "Invalid dashboard experience URL"
    /\ Len(experiences) = 1

-----------------------------------------------------------------------------
\* the key of the i-th constructed experience
ExperienceKey(i) ==
    <<experiences[i].internalExperience.experienceType,
      experiences[i].internalExperience.dashboardId,
      experiences[i].internalExperience.contextId>>

Discriminator(i) == experiences[i].internalExperience.discriminator

\* C2: the k-th constructed experience of a key receives discriminator k-1,
\* in construction order; the key is the type, the dashboard id of the URL
\* and the contextId; no two experiences of a key share a discriminator.
C2_DiscriminatorsInOrder ==
    /\ \A i \in 1..Len(experiences) :
          Discriminator(i) =
              Cardinality({j \in 1..(i - 1) : ExperienceKey(j) = ExperienceKey(i)})
    /\ \A i, j \in 1..Len(experiences) :
          (i # j /\ ExperienceKey(i) = ExperienceKey(j))
              => Discriminator(i) # Discriminator(j)
    /\ (lastNew.n > 0 /\ lastNew.result.created) =>
          ExperienceKey(Len(experiences)) =
              <<"DASHBOARD", ConstructedUrl.segs[7], TEST_CONTEXT_ID>>

C2_Witness ==
    /\ Len(experiences) = 2
    /\ ExperienceKey(1) = ExperienceKey(2)
    /\ Discriminator(1) = 0
    /\ Discriminator(2) = 1

-----------------------------------------------------------------------------
\* C3: an inbound message invokes the interception hook and the onMessage
\* listener only of an experience whose full identity is its eventTarget;
\* a message whose eventTarget is no experience's identity invokes nothing.
C3_DeliveredToTargetOnly ==
    /\ \A h \in lastInbound.invoked :
          experiences[h[2]].internalExperience = lastInbound.message.eventTarget
    /\ (lastInbound.message # Undefined
        /\ \A i \in 1..Len(experiences) :
              experiences[i].internalExperience # lastInbound.message.eventTarget)
          => lastInbound.invoked = {}

C3_Witness ==
    /\ Len(experiences) = 2
    /\ ExperienceKey(1) = ExperienceKey(2)
    /\ experiences[2].onMessage.type = "function"
    /\ lastInbound.message # Undefined
    /\ lastInbound.message.eventTarget = experiences[1].internalExperience
    /\ lastInbound.invoked = {<<"interceptMessage", 1>>}

-----------------------------------------------------------------------------
\* the inbound message of this step was routed to experience i
RoutedInStep(i) ==
    /\ lastInbound'.seq # lastInbound.seq
    /\ <<"interceptMessage", i>> \in lastInbound'.invoked

\* C4: a routed SIZE_CHANGED notification with payload height h sets the
\* frame's height to h followed by 'px' when resizeHeightOnSizeChangedEvent
\* is enabled; with it disabled, or for another eventName, the height stays.
C4_ResizeOnSizeChanged ==
    [][\A i \in 1..Len(experiences) :
          RoutedInStep(i) =>
              LET m == lastInbound'.message
                  enabled == Truthy(experiences[i].resizeHeightOnSizeChangedEvent)
              IN  /\ (m.eventName = "SIZE_CHANGED" /\ enabled
                      /\ Get(m.message, "height").type = "string")
                        => experiences'[i].height = Get(m.message, "height").val \o "px"
                  /\ (m.eventName # "SIZE_CHANGED" \/ ~enabled)
                        => experiences'[i].height = experiences[i].height]_vars

C4_Witness ==
    /\ Len(experiences) = 2
    /\ experiences[1].height = "500px"
    /\ experiences[2].height = "0px"
    /\ experiences[2].resizeHeightOnSizeChangedEvent = Bool(FALSE)
    /\ lastInbound.invoked = {<<"interceptMessage", 2>>}
    /\ lastInbound.message.eventName = "SIZE_CHANGED"


-----------------------------------------------------------------------------
\* the content option names recognized for a dashboard
DashboardOptionNames ==
    {"parameters", "locale", "attributionOptions", "sheetOptions", "toolbarOptions",
     "onMessage"}

\* the frame parameters the transformation sets itself
FrameParameterNames ==
    {"parameters", "footerPaddingEnabled", "printEnabled", "undoRedoDisabled",
     "resetDisabled", "showBookmarksIcon", "sheetId", "sheetTabsDisabled",
     "resizeOnSheetChange"}

UnrecognizedKeys == DOMAIN lastNew.contentOptions.val \ DashboardOptionNames

UnrecognizedEvents ==
    SelectSeq(lastNew.result.onChange,
              LAMBDA e : e.eventName = "UNRECOGNIZED_CONTENT_OPTIONS")

\* the warning about the unrecognized keys, and the creation of the frame
WarnsOnceAndCreates ==
    /\ lastNew.result.created
    /\ (lastNew.frameOptions.onChange /\ UnrecognizedKeys # {}) =>
          /\ Len(UnrecognizedEvents) = 1
          /\ UnrecognizedEvents[1].eventLevel = "WARN"
          /\ UnrecognizedEvents[1].data.unrecognizedContentOptions = UnrecognizedKeys
    /\ UnrecognizedKeys = {} => Len(UnrecognizedEvents) = 0

ForwardedUnmodified(keys) ==
    \A k \in keys :
        Get(lastNew.result.transformedContentOptions, k) = lastNew.contentOptions.val[k]

\* C7 as stated: every unrecognized key is forwarded unmodified.
C7_AsStated ==
    ConstructedValid => (WarnsOnceAndCreates /\ ForwardedUnmodified(UnrecognizedKeys))

\* C7, amended: content options with keys outside the recognized set make the
\* construction call onChange (when supplied) exactly once with an
\* UNRECOGNIZED_CONTENT_OPTIONS event at WARN level listing exactly those
\* keys; the frame is still created; the unrecognized keys are forwarded
\* unmodified unless a key is itself the name of a frame parameter the
\* transformation sets; with recognized keys only there is no such event.
C7_UnrecognizedContentOptions ==
    ConstructedValid =>
        (WarnsOnceAndCreates /\ ForwardedUnmodified(UnrecognizedKeys \ FrameParameterNames))

C7_Witness ==
    /\ ConstructedValid
    /\ lastNew.frameOptions.onChange
    /\ UnrecognizedKeys = {"testUnrecognizedContentOption", "fitToIframeWidth"}
    /\ Len(UnrecognizedEvents) = 1
    /\ Get(lastNew.result.transformedContentOptions, "fitToIframeWidth") = Bool(TRUE)
    /\ lastNew.result.created

-----------------------------------------------------------------------------
\* the parameter names of the frame source URL of the latest construction
SrcNames == [i \in 1..Len(lastNew.result.src.query) |-> lastNew.result.src.query[i].name]

Occurrences(names, n) == Cardinality({i \in 1..Len(names) : names[i] = n})

NoNameTwice(names) == \A i, j \in 1..Len(names) : i # j => names[i] # names[j]

\* the parameter names a construction adds to the URL
InjectedParameterNames ==
    {"punyCodeEmbedOrigin", "contextId", "discriminator"}
    \cup {QueryParameterOrder[i] : i \in 1..Len(QueryParameterOrder)}

IdentityOnceNoDuplicates ==
    /\ lastNew.result.created
    /\ Occurrences(SrcNames, "contextId") = 1
    /\ Occurrences(SrcNames, "discriminator") = 1
    /\ NoNameTwice(SrcNames)
    /\ \A i \in 1..Len(SrcNames) :
          /\ SrcNames[i] = "contextId" =>
                lastNew.result.src.query[i].value = Str(TEST_CONTEXT_ID)
          /\ SrcNames[i] = "discriminator" =>
                lastNew.result.src.query[i].value = Num(Discriminator(Len(experiences)))

-----------------------------------------------------------------------------
\* C10: a construction that fails, or whose URL is invalid, leaves the
\* identifier set and the experiences as they were; the identifiers in the
\* set are those of the constructed experiences and no others, so that a
\* failed call consumes no discriminator.
C10_FailedConstructionRegistersNothing ==
    [][(lastNew'.n # lastNew.n) =>
          /\ (lastNew'.result.thrown # NoError
              \/ (lastNew'.frameOptions.url.type = "string"
                  /\ ~MatchesDashboardGrammar(lastNew'.frameOptions.url.val)))
                => /\ experienceIdentifiers' = experienceIdentifiers
                   /\ experiences' = experiences
                   /\ ~lastNew'.result.created
          /\ experienceIdentifiers' =
                {experiences'[i].experienceId : i \in 1..Len(experiences')}]_vars

C10_Witness ==
    /\ lastNew.n = 2
    /\ ConstructedInvalid
    /\ lastNew.result.thrown = "Invalid dashboard experience URL"
    /\ Len(experiences) = 1
    /\ Cardinality(experienceIdentifiers) = 1

-----------------------------------------------------------------------------
\* the calls of onChange that the latest construction made, in order
OnChangeCalls == lastNew.result.onChange
OnChangeSupplied == lastNew.frameOptions.onChange

\* the positions of the calls made with an event of the given name
CallsNamed(eventName) ==
    {i \in 1..Len(OnChangeCalls) : OnChangeCalls[i].eventName = eventName}

\* the full identity of the experience the latest construction created
ConstructedIdentity ==
    [experienceType |-> "DASHBOARD",
     dashboardId |-> ConstructedUrl.segs[7],
     contextId |-> TEST_CONTEXT_ID,
     discriminator |-> Discriminator(Len(experiences))]

\* C11: a successful construction that was given an onChange callback calls
\* it, before it returns, with a FRAME_STARTED event at INFO level whose
\* data.experience is the full identity of the experience (type, dashboard
\* id, contextId and the discriminator assigned to it) and with frame =
\* null; the call is made once and is the last of the construction.
C11_FrameStartedOnConstruction ==
    (ConstructedValid /\ OnChangeSupplied) =>
        /\ lastNew.result.created
        /\ experiences[Len(experiences)].internalExperience = ConstructedIdentity
        /\ CallsNamed("FRAME_STARTED") = {Len(OnChangeCalls)}
        /\ OnChangeCalls[Len(OnChangeCalls)] =
              [eventName |-> "FRAME_STARTED", eventLevel |-> "INFO",
               message |-> "Creating the frame",
               data |-> [experience |-> ConstructedIdentity],
               frame |-> "null"]

C11_Witness ==
    /\ ConstructedValid /\ OnChangeSupplied
    /\ Len(experiences) = 2
    /\ ExperienceKey(1) = ExperienceKey(2)
    /\ Len(OnChangeCalls) = 2
    /\ OnChangeCalls[1].eventName = "UNRECOGNIZED_CONTENT_OPTIONS"
    /\ OnChangeCalls[2].eventName = "FRAME_STARTED"
    /\ OnChangeCalls[2].data.experience.discriminator = 1
    /\ OnChangeCalls[2].frame = "null"

-----------------------------------------------------------------------------
\* C12: a construction whose URL does not match the grammar throws; when an
\* onChange callback was supplied, the calls made before the throw are
\* exactly one, with an INVALID_URL event at ERROR level whose data carries
\* the offending url and with frame = null, and none is FRAME_STARTED; when
\* none was supplied the error is thrown all the same.
C12_InvalidUrlReported ==
    ConstructedInvalid =>
        /\ lastNew.result.thrown = "Invalid dashboard experience URL"
        /\ CallsNamed("FRAME_STARTED") = {}
        /\ OnChangeSupplied =>
              OnChangeCalls =
                  <<[eventName |-> "INVALID_URL", eventLevel |-> "ERROR",
                     message |-> "Invalid dashboard experience url",
                     data |-> [url |-> ConstructedUrl],
                     frame |-> "null"]>>
        /\ ~OnChangeSupplied => OnChangeCalls = <<>>

C12_Witness ==
    /\ ConstructedInvalid /\ OnChangeSupplied
    /\ ConstructedUrl = TEST_VISUAL_URL
    /\ lastNew.result.thrown = "Invalid dashboard experience URL"
    /\ Len(OnChangeCalls) = 1
    /\ OnChangeCalls[1].eventName = "INVALID_URL"
    /\ OnChangeCalls[1].data.url = TEST_VISUAL_URL
    /\ ~lastNew.result.created

-----------------------------------------------------------------------------
(* The facade operations.  Each builds one EmbeddingMessageEvent, hands it *)
(* to send and, for a query, unwraps the response it awaits.               *)

\* new EmbeddingMessageEvent(eventName, message)
EmbeddingMessageEvent(eventName, message) == [eventName |-> eventName, message |-> message]

\* a call of operation op with arguments args that handed the envelopes of
\* sent to this.send, in that order
Called(op, args, sent) == [op |-> op, args |-> args, sent |-> sent]

SheetIds == {Str("testSheetId")}
VisualIds == {Str("testVisualId")}
DashboardIds == {Str("testDashboardId")}
VisualActionLists == {Arr(<<>>), Arr(<<"Custom-Action">>)}
ParameterLists == {Arr(<<>>), TEST_PARAMETERS}
NavigateToDashboardOptions == {Undefined, EmptyObject, Obj([parameters |-> TEST_PARAMETERS])}

initiatePrint ==
    /\ Len(pending) < MaxPending
    /\ lastCall' = Called("initiatePrint", <<>>, <<EmbeddingMessageEvent("INITIATE_PRINT", Undefined)>>)
    /\ pending' = Append(pending, "initiatePrint")
    /\ UNCHANGED <<lastResult, constructionVars, transformVars>>

undo ==
    /\ Len(pending) < MaxPending
    /\ lastCall' = Called("undo", <<>>, <<EmbeddingMessageEvent("UNDO", Undefined)>>)
    /\ pending' = Append(pending, "undo")
    /\ UNCHANGED <<lastResult, constructionVars, transformVars>>

redo ==
    /\ Len(pending) < MaxPending
    /\ lastCall' = Called("redo", <<>>, <<EmbeddingMessageEvent("REDO", Undefined)>>)
    /\ pending' = Append(pending, "redo")
    /\ UNCHANGED <<lastResult, constructionVars, transformVars>>

toggleBookmarksPane ==
    /\ Len(pending) < MaxPending
    /\ lastCall' = Called("toggleBookmarksPane", <<>>, <<EmbeddingMessageEvent("TOGGLE_BOOKMARKS_PANE", Undefined)>>)
    /\ pending' = Append(pending, "toggleBookmarksPane")
    /\ UNCHANGED <<lastResult, constructionVars, transformVars>>

getParameters ==
    /\ Len(pending) < MaxPending
    /\ lastCall' = Called("getParameters", <<>>, <<EmbeddingMessageEvent("GET_PARAMETERS", Undefined)>>)
    /\ pending' = Append(pending, "getParameters")
    /\ UNCHANGED <<lastResult, constructionVars, transformVars>>

getSheets ==
    /\ Len(pending) < MaxPending
    /\ lastCall' = Called("getSheets", <<>>, <<EmbeddingMessageEvent("GET_SHEETS", Undefined)>>)
    /\ pending' = Append(pending, "getSheets")
    /\ UNCHANGED <<lastResult, constructionVars, transformVars>>

getVisualActions ==
    /\ Len(pending) < MaxPending
    /\ \E sheetId \in SheetIds, visualId \in VisualIds :
          lastCall' = Called("getVisualActions", <<sheetId, visualId>>,
                             <<EmbeddingMessageEvent("GET_VISUAL_ACTIONS",
                                   Obj([SheetId |-> sheetId, VisualId |-> visualId]))>>)
    /\ pending' = Append(pending, "getVisualActions")
    /\ UNCHANGED <<lastResult, constructionVars, transformVars>>

\* addVisualActions with the event name of setVisualActions
addVisualActionsAsSet ==
    /\ Len(pending) < MaxPending
    /\ \E sheetId \in SheetIds, visualId \in VisualIds, actions \in VisualActionLists :
          lastCall' = Called("addVisualActions", <<sheetId, visualId, actions>>,
                             <<EmbeddingMessageEvent("SET_VISUAL_ACTIONS",
                                   Obj([SheetId |-> sheetId, VisualId |-> visualId,
                                        Actions |-> actions]))>>)
    /\ pending' = Append(pending, "addVisualActions")
    /\ UNCHANGED <<lastResult, constructionVars, transformVars>>

addVisualActions ==
    /\ Len(pending) < MaxPending
    /\ \E sheetId \in SheetIds, visualId \in VisualIds, actions \in VisualActionLists :
          lastCall' = Called("addVisualActions", <<sheetId, visualId, actions>>,
                             <<EmbeddingMessageEvent("ADD_VISUAL_ACTIONS",
                                   Obj([SheetId |-> sheetId, VisualId |-> visualId,
                                        Actions |-> actions]))>>)
    /\ pending' = Append(pending, "addVisualActions")
    /\ UNCHANGED <<lastResult, constructionVars, transformVars>>

setVisualActions ==
    /\ Len(pending) < MaxPending
    /\ \E sheetId \in SheetIds, visualId \in VisualIds, actions \in VisualActionLists :
          lastCall' = Called("setVisualActions", <<sheetId, visualId, actions>>,
                             <<EmbeddingMessageEvent("SET_VISUAL_ACTIONS",
                                   Obj([SheetId |-> sheetId, VisualId |-> visualId,
                                        Actions |-> actions]))>>)
    /\ pending' = Append(pending, "setVisualActions")
    /\ UNCHANGED <<lastResult, constructionVars, transformVars>>

getSelectedSheetId ==
    /\ Len(pending) < MaxPending
    /\ lastCall' = Called("getSelectedSheetId", <<>>, <<EmbeddingMessageEvent("GET_SELECTED_SHEET_ID", Undefined)>>)
    /\ pending' = Append(pending, "getSelectedSheetId")
    /\ UNCHANGED <<lastResult, constructionVars, transformVars>>

setSelectedSheetId ==
    /\ Len(pending) < MaxPending
    /\ \E sheetId \in SheetIds :
          lastCall' = Called("setSelectedSheetId", <<sheetId>>,
                             <<EmbeddingMessageEvent("SET_SELECTED_SHEET_ID",
                                   Obj([SheetId |-> sheetId]))>>)
    /\ pending' = Append(pending, "setSelectedSheetId")
    /\ UNCHANGED <<lastResult, constructionVars, transformVars>>

navigateToDashboard ==
    /\ Len(pending) < MaxPending
    /\ \E dashboardId \in DashboardIds, navigateToDashboardOptions \in NavigateToDashboardOptions :
          lastCall' = Called("navigateToDashboard", <<dashboardId, navigateToDashboardOptions>>,
                             <<EmbeddingMessageEvent("NAVIGATE_TO_DASHBOARD",
                                   Obj([DashboardId |-> dashboardId,
                                        Parameters |-> Get(navigateToDashboardOptions,
                                                           "parameters")]))>>)
    /\ pending' = Append(pending, "navigateToDashboard")
    /\ UNCHANGED <<lastResult, constructionVars, transformVars>>

removeVisualActions ==
    /\ Len(pending) < MaxPending
    /\ \E sheetId \in SheetIds, visualId \in VisualIds, actions \in VisualActionLists :
          lastCall' = Called("removeVisualActions", <<sheetId, visualId, actions>>,
                             <<EmbeddingMessageEvent("REMOVE_VISUAL_ACTIONS",
                                   Obj([SheetId |-> sheetId, VisualId |-> visualId,
                                        Actions |-> actions]))>>)
    /\ pending' = Append(pending, "removeVisualActions")
    /\ UNCHANGED <<lastResult, constructionVars, transformVars>>

getSheetVisuals ==
    /\ Len(pending) < MaxPending
    /\ \E sheetId \in SheetIds :
          lastCall' = Called("getSheetVisuals", <<sheetId>>,
                             <<EmbeddingMessageEvent("GET_SHEET_VISUALS",
                                   Obj([SheetId |-> sheetId]))>>)
    /\ pending' = Append(pending, "getSheetVisuals")
    /\ UNCHANGED <<lastResult, constructionVars, transformVars>>

setParameters ==
    /\ Len(pending) < MaxPending
    /\ \E parameters \in ParameterLists :
          lastCall' = Called("setParameters", <<parameters>>,
                             <<EmbeddingMessageEvent("SET_PARAMETERS",
                                   parameters)>>)
    /\ pending' = Append(pending, "setParameters")
    /\ UNCHANGED <<lastResult, constructionVars, transformVars>>

reset ==
    /\ Len(pending) < MaxPending
    /\ lastCall' = Called("reset", <<>>, <<EmbeddingMessageEvent("RESET", Undefined)>>)
    /\ pending' = Append(pending, "reset")
    /\ UNCHANGED <<lastResult, constructionVars, transformVars>>

\* response?.message ?? [] and response?.message ?? ''
getSelectedSheetIdResultAsList(response) == Coalesce(Get(response, "message"), Arr(<<>>))

getParametersResult(response) == Coalesce(Get(response, "message"), Arr(<<>>))
getSheetsResult(response) == Coalesce(Get(response, "message"), Arr(<<>>))
getVisualActionsResult(response) == Coalesce(Get(response, "message"), Arr(<<>>))
getSheetVisualsResult(response) == Coalesce(Get(response, "message"), Arr(<<>>))
getSelectedSheetIdResult(response) == Coalesce(Get(response, "message"), Str(""))

\* what the promise of operation op resolves to when send resolves to response
Resolution(op, response) ==
    CASE op = "getParameters" -> getParametersResult(response)
      [] op = "getSheets" -> getSheetsResult(response)
      [] op = "getVisualActions" -> getVisualActionsResult(response)
      [] op = "getSheetVisuals" -> getSheetVisualsResult(response)
      [] op = "getSelectedSheetId" -> getSelectedSheetIdResult(response)
      [] OTHER -> response

\* what send can resolve to
Responses ==
    {Undefined,
     Obj([success |-> Bool(TRUE)]),
     Obj([success |-> Bool(TRUE), message |-> Null]),
     Obj([success |-> Bool(TRUE), message |-> Arr(<<>>)]),
     Obj([success |-> Bool(TRUE), message |-> Arr(<<"item">>)]),
     Obj([success |-> Bool(TRUE), message |-> Str("")]),
     Obj([success |-> Bool(TRUE), message |-> Str("testSheetId")])}

\* the send of a pending call resolves and the operation's promise with it
SendResolves ==
    /\ \E i \in 1..Len(pending), response \in Responses :
          /\ lastResult' = [op |-> pending[i], response |-> response,
                            value |-> Resolution(pending[i], response)]
          /\ pending' = SubSeq(pending, 1, i - 1) \o SubSeq(pending, i + 1, Len(pending))
    /\ UNCHANGED <<lastCall, constructionVars, transformVars>>

NextFacade ==
    \/ initiatePrint \/ undo \/ redo \/ toggleBookmarksPane
    \/ getParameters \/ getSheets \/ getVisualActions
    \/ addVisualActions \/ setVisualActions
    \/ getSelectedSheetId \/ setSelectedSheetId \/ navigateToDashboard
    \/ removeVisualActions \/ getSheetVisuals \/ setParameters \/ reset
    \/ SendResolves

SpecFacade == Init /\ [][NextFacade]_vars

\* the operations that unwrap a list, and the one that unwraps a string
ListQueries == {"getParameters", "getSheets", "getVisualActions", "getSheetVisuals"}

\* the response carries no payload
NoPayload(response) == Get(response, "message").type \in {"undefined", "null"}

SameValue(a, b) == a.type = b.type /\ a = b

\* C5: a query whose response is undefined or carries no message resolves to
\* the empty list (getSelectedSheetId: to the empty string); with a message
\* present it resolves to exactly that message.
C5_QueriesDefaultToEmpty ==
    /\ lastResult.op \in ListQueries =>
          IF NoPayload(lastResult.response)
          THEN SameValue(lastResult.value, Arr(<<>>))
          ELSE SameValue(lastResult.value, lastResult.response.val.message)
    /\ lastResult.op = "getSelectedSheetId" =>
          IF NoPayload(lastResult.response)
          THEN SameValue(lastResult.value, Str(""))
          ELSE SameValue(lastResult.value, lastResult.response.val.message)

C5_Witness ==
    /\ lastResult.op = "getVisualActions"
    /\ lastResult.response = Undefined
    /\ lastResult.value = Arr(<<>>)

-----------------------------------------------------------------------------
\* the protocol constant of each operation
ProtocolEventName ==
    [initiatePrint |-> "INITIATE_PRINT", undo |-> "UNDO", redo |-> "REDO",
     toggleBookmarksPane |-> "TOGGLE_BOOKMARKS_PANE",
     getParameters |-> "GET_PARAMETERS", getSheets |-> "GET_SHEETS",
     getVisualActions |-> "GET_VISUAL_ACTIONS",
     addVisualActions |-> "ADD_VISUAL_ACTIONS",
     setVisualActions |-> "SET_VISUAL_ACTIONS",
     getSelectedSheetId |-> "GET_SELECTED_SHEET_ID",
     setSelectedSheetId |-> "SET_SELECTED_SHEET_ID",
     navigateToDashboard |-> "NAVIGATE_TO_DASHBOARD",
     removeVisualActions |-> "REMOVE_VISUAL_ACTIONS",
     getSheetVisuals |-> "GET_SHEET_VISUALS",
     setParameters |-> "SET_PARAMETERS", reset |-> "RESET"]

\* the names under which an operation's arguments travel, in argument order
ArgumentNames(op) ==
    CASE op \in {"addVisualActions", "setVisualActions", "removeVisualActions"} ->
             <<"SheetId", "VisualId", "Actions">>
      [] op = "getVisualActions" -> <<"SheetId", "VisualId">>
      [] op \in {"setSelectedSheetId", "getSheetVisuals"} -> <<"SheetId">>
      [] op = "navigateToDashboard" -> <<"DashboardId", "Parameters">>
      [] OTHER -> <<>>

\* the envelope carries the arguments of the call unchanged
CarriesArguments(op, args, message) ==
    CASE op = "setParameters" -> SameValue(message, args[1])
      [] ArgumentNames(op) = <<>> -> message = Undefined
      [] OTHER ->
          /\ message.type = "object"
          /\ DOMAIN message.val = {ArgumentNames(op)[i] : i \in 1..Len(args)}
          /\ \A i \in 1..Len(args) :
                LET sentValue == message.val[ArgumentNames(op)[i]]
                IN  IF op = "navigateToDashboard" /\ i = 2
                    THEN SameValue(sentValue, Get(args[2], "parameters"))
                    ELSE SameValue(sentValue, args[i])

\* C6: every call of a facade operation hands exactly one envelope to send,
\* whose eventName is the protocol constant of that operation and whose
\* message is the arguments of the call.
C6_OneEnvelopePerCall ==
    lastCall.op # "none" =>
        /\ Len(lastCall.sent) = 1
        /\ lastCall.sent[1].eventName = ProtocolEventName[lastCall.op]
        /\ CarriesArguments(lastCall.op, lastCall.args, lastCall.sent[1].message)

C6_Witness ==
    /\ lastCall.op = "addVisualActions"
    /\ lastCall.args[3] = Arr(<<"Custom-Action">>)
    /\ Len(lastCall.sent) = 1
    /\ lastCall.sent[1].eventName = "ADD_VISUAL_ACTIONS"
    /\ lastResult.op = "setVisualActions"

-----------------------------------------------------------------------------
(* The transformation of the content options on its own.                   *)

Absent == [type |-> "absent"]

\* the object with the properties of fields that are not absent
ObjectOf(fields) == Obj([k \in {x \in DOMAIN fields : fields[x].type # "absent"} |-> fields[k]])

Optional(values) == {Absent} \cup values
Booleans == {Bool(TRUE), Bool(FALSE)}

AttributionOptions ==
    {Absent} \cup {ObjectOf([overlayContent |-> o]) : o \in Optional(Booleans)}

ExportToolbarOptions ==
    Booleans \cup {ObjectOf([print |-> p]) : p \in Optional(Booleans)}

ToolbarOptions ==
    {Absent} \cup
    {ObjectOf([export |-> e, undoRedo |-> u, reset |-> r, bookmarks |-> b]) :
        e \in Optional(ExportToolbarOptions), u \in Optional(Booleans),
        r \in Optional({Bool(TRUE)}), b \in Optional(Booleans)}

SheetOptions ==
    {Absent} \cup
    {ObjectOf([initialSheetId |-> i, singleSheet |-> s,
               emitSizeChangedEventOnSheetChange |-> e]) :
        i \in Optional({Str(""), Str("testSheetId")}), s \in Optional(Booleans),
        e \in Optional(Booleans)}

ParameterEntries == [Name : {"State", "City"}, Values : {<<"CT">>, <<"CT", "NY">>}]

\* the parameter lists of at most MaxParameters entries
ParameterListsUpTo ==
    UNION {[1..n -> ParameterEntries] : n \in 0..MaxParameters}

\* content options whose unrecognized keys are names of frame parameters
FrameParameterOptions ==
    {Obj([showBookmarksIcon |-> Bool(TRUE)]),
     Obj([sheetTabsDisabled |-> Bool(TRUE)]),
     Obj([undoRedoDisabled |-> Bool(TRUE),
          toolbarOptions |-> Obj([undoRedo |-> Bool(TRUE)])])}

TransformInputs ==
    {[contentOptions |->
          ObjectOf([attributionOptions |-> a, toolbarOptions |-> t, sheetOptions |-> s,
                    testUnrecognizedContentOption |-> u]),
      onChange |-> TRUE] :
        a \in AttributionOptions, t \in ToolbarOptions, s \in SheetOptions,
        u \in Optional({Str("some value")})}
    \cup {[contentOptions |-> ObjectOf([parameters |-> Arr(p), locale |-> l]),
           onChange |-> c] :
            p \in ParameterListsUpTo, l \in Optional({Str("en-US")}), c \in BOOLEAN}
    \cup {[contentOptions |-> c, onChange |-> FALSE] :
            c \in ContentOptions \cup FrameParameterOptions}

TransformInit ==
    /\ ConstructionInit
    /\ FacadeInit
    /\ tInput \in TransformInputs
    /\ tOutput = NotComputed

\* this.transformDashboardContentOptions(contentOptions)
TransformDashboardContentOptions ==
    /\ ~tOutput.computed
    /\ \E result \in {transformDashboardContentOptions(tInput.contentOptions,
                                                       tInput.onChange)} :
          tOutput' = [computed |-> TRUE, value |-> result.value,
                      onChange |-> result.onChange]
    /\ UNCHANGED <<tInput, constructionVars, facadeVars>>

NextTransform == TransformDashboardContentOptions

SpecTransform == TransformInit /\ [][NextTransform]_vars

-----------------------------------------------------------------------------
\* the parameter list given to the transformation, when one was given
GivenParameters == Get(tInput.contentOptions, "parameters")

\* the name-to-values mapping converted back into {Name, Values} entries
EntriesOf(parametersAsObject) ==
    {[Name |-> n, Values |-> parametersAsObject[n]] : n \in DOMAIN parametersAsObject}

\* the entries of the mapping are those of the list, none lost
RoundTrips(parameters, parametersAsObject) ==
    /\ \A i \in 1..Len(parameters) : parameters[i] \in EntriesOf(parametersAsObject)
    /\ \A e \in EntriesOf(parametersAsObject) :
          \E i \in 1..Len(parameters) : parameters[i] = e
    /\ Cardinality(EntriesOf(parametersAsObject)) = Len(parameters)

Transformed == tOutput.computed /\ GivenParameters.type = "array"

\* C8 as stated: for every parameter list.
C8_AsStated ==
    Transformed =>
        /\ Get(tOutput.value, "parameters").type = "object"
        /\ RoundTrips(GivenParameters.val, Get(tOutput.value, "parameters").val)

\* C8, amended: for every parameter list whose entries have pairwise
\* distinct Names, converting the list into the name-to-values mapping of the
\* transformed content options and converting the mapping back yields the
\* entries of the list, each Name with its Values and none lost.
C8_ParametersRoundTrip ==
    (/\ Transformed
     /\ \A i, j \in 1..Len(GivenParameters.val) :
           i # j => GivenParameters.val[i].Name # GivenParameters.val[j].Name)
        => /\ Get(tOutput.value, "parameters").type = "object"
           /\ RoundTrips(GivenParameters.val, Get(tOutput.value, "parameters").val)

C8_Witness ==
    /\ Transformed
    /\ GivenParameters.val =
           <<[Name |-> "State", Values |-> <<"CT">>],
             [Name |-> "City", Values |-> <<"CT", "NY">>]>>
    /\ Get(tOutput.value, "parameters").val =
           [State |-> <<"CT">>, City |-> <<"CT", "NY">>]

-----------------------------------------------------------------------------
\* the public options given to the transformation and what it returned
SheetOptionsGiven == Get(tInput.contentOptions, "sheetOptions")
ToolbarOptionsGiven == Get(tInput.contentOptions, "toolbarOptions")
AttributionOptionsGiven == Get(tInput.contentOptions, "attributionOptions")
OutputNames == DOMAIN tOutput.value.val
Output(name) == Get(tOutput.value, name)

\* the frame parameters of the table and the public names it replaces
TableParameterNames ==
    {"sheetTabsDisabled", "undoRedoDisabled", "resetDisabled", "footerPaddingEnabled",
     "showBookmarksIcon", "sheetId", "resizeOnSheetChange"}
PublicOptionNames == {"sheetOptions", "toolbarOptions", "attributionOptions", "onMessage"}

\* the output is the input's image under the table
FollowsTable ==
    /\ "sheetTabsDisabled" \in OutputNames
          <=> Get(SheetOptionsGiven, "singleSheet").type = "boolean"
    /\ Get(SheetOptionsGiven, "singleSheet").type = "boolean"
          => Output("sheetTabsDisabled") = Get(SheetOptionsGiven, "singleSheet")
    /\ Output("undoRedoDisabled") = Bool(TRUE)
          <=> Get(ToolbarOptionsGiven, "undoRedo") # Bool(TRUE)
    /\ Output("resetDisabled") = Bool(TRUE)
          <=> Get(ToolbarOptionsGiven, "reset") # Bool(TRUE)
    /\ Output("footerPaddingEnabled") = Bool(TRUE)
          <=> Get(AttributionOptionsGiven, "overlayContent") # Bool(TRUE)
    /\ Output("showBookmarksIcon") = Bool(TRUE)
          <=> Get(ToolbarOptionsGiven, "bookmarks") = Bool(TRUE)
    /\ "sheetId" \in OutputNames
          <=> /\ Get(SheetOptionsGiven, "initialSheetId").type = "string"
              /\ Get(SheetOptionsGiven, "initialSheetId").val # ""
    /\ Output("resizeOnSheetChange") = Bool(TRUE)
          <=> Truthy(Get(SheetOptionsGiven, "emitSizeChangedEventOnSheetChange"))
    /\ OutputNames \cap PublicOptionNames = {}

\* C13 as stated: for every input.
C13_AsStated == tOutput.computed => FollowsTable

\* C13, amended: for every input that has no key named as a frame parameter
\* of the table, the output follows the table: sheetTabsDisabled is present
\* exactly when singleSheet is a boolean and equals it, undoRedoDisabled,
\* resetDisabled and footerPaddingEnabled are true exactly when undoRedo,
\* reset and overlayContent are not true, showBookmarksIcon is true exactly
\* when bookmarks is true, sheetId is present exactly when initialSheetId is
\* non-empty, resizeOnSheetChange is true exactly when
\* emitSizeChangedEventOnSheetChange is truthy, and no public option name
\* appears in the output.
C13_FixedTable ==
    (/\ tOutput.computed
     /\ DOMAIN tInput.contentOptions.val \cap TableParameterNames = {})
        => FollowsTable

C13_Witness ==
    /\ tOutput.computed
    /\ SheetOptionsGiven =
           Obj([initialSheetId |-> Str("testSheetId"), singleSheet |-> Bool(FALSE)])
    /\ ToolbarOptionsGiven = Obj([undoRedo |-> Bool(TRUE), bookmarks |-> Bool(TRUE)])
    /\ AttributionOptionsGiven = Obj([overlayContent |-> Bool(TRUE)])
    /\ OutputNames = {"locale", "resetDisabled", "showBookmarksIcon", "sheetId",
                      "sheetTabsDisabled"}
    /\ Output("sheetTabsDisabled") = Bool(FALSE)
    /\ Output("sheetId") = Str("testSheetId")

-----------------------------------------------------------------------------
\* toolbarOptions.export as given, and whether it enables printing
ExportGiven == Get(ToolbarOptionsGiven, "export")
PrintingEnabledByExport ==
    ExportGiven = Bool(TRUE) \/ Get(ExportGiven, "print") = Bool(TRUE)

\* C14: printEnabled is set, to true, only when toolbarOptions.export is true
\* or toolbarOptions.export.print is true; when export is absent, false, or
\* an export object whose print is false or absent, printEnabled is not set.
C14_AsStated ==
    tOutput.computed =>
        /\ "printEnabled" \in OutputNames =>
              (Output("printEnabled") = Bool(TRUE) /\ PrintingEnabledByExport)
        /\ ~PrintingEnabledByExport => "printEnabled" \notin OutputNames

\* an export object whose print is false, and printEnabled set all the same
C14_Witness ==
    /\ tOutput.computed
    /\ ExportGiven = Obj([print |-> Bool(FALSE)])
    /\ ~PrintingEnabledByExport
    /\ Output("printEnabled") = Bool(TRUE)

====
